---- MODULE Spec2Model ----
(***************************************************************************)
(* Multilevel-queue CPU scheduling simulator (src/mlq_simulator.py).       *)
(*                                                                         *)
(* Process objects are identified by their position in the input file     *)
(* (1..Len(file)); the queues, the feed and the running slot hold these   *)
(* references, as the Python lists and deques hold object references.     *)
(***************************************************************************)
EXTENDS Integers, Sequences, FiniteSets, TLC

\* ------------------------------------------------------------------ bounds
\* Largest number of lines of the input file.
MaxProcs == 2

\* The small sets the fields of an input line and the two quanta are drawn from.
\* A quantum above the largest burst acts as the largest burst (line 113), and
\* only the order of the priorities is read (line 97).
Bursts == 1..2
Arrivals == 0..2
Priorities == {2, 5}
Quanta == 1..2

\* Sentinel of Process.first_run_time before the first dispatch.
UNSET == -1

\* The empty running slot (current_process = None).
None == 0

VARIABLES
    file,               \* the lines of the input file, in file order
    quantum1, quantum2, \* round-robin quanta of queue 1 and queue 2
    proc,               \* the Process objects, by reference
    processes_to_arrive,\* the feed
    q1, q2, q3,         \* the three queues
    completed_processes,
    current_time,
    current_process,
    pc,                 \* position in main / run_simulation
    report,             \* what write_output wrote to the output file
    hist                \* history: idle ticks taken, slices given, and for
                        \* each process the queue it was last put back behind

vars == <<file, quantum1, quantum2, proc, processes_to_arrive, q1, q2, q3,
          completed_processes, current_time, current_process, pc, report,
          hist>>

\* ------------------------------------------------------------- helpers
Range(s) == {s[i] : i \in 1..Len(s)}

\* The decimal texts int() is given in the model, each with its value; any
\* other text makes int() raise ValueError.
IntTexts ==
    {<<"-1", -1>>, <<"0", 0>>, <<"1", 1>>, <<"2", 2>>, <<"3", 3>>, <<"4", 4>>,
     <<"5", 5>>}

IsIntText(tok) == \E e \in IntTexts : e[1] = tok

\* int(tok)
ParseInt(tok) == (CHOOSE e \in IntTexts : e[1] = tok)[2]

\* The text of an integer, as it stands in the file.
Text(i) == (CHOOSE e \in IntTexts : e[2] = i)[1]

\* A line of the input file. kind "comment": it starts with '#'; "blank": it
\* is empty once stripped; "text": any other line, with fields the stripped
\* parts between the ';' that follow the first part, the pid. The pid of a line
\* is its position in the file.
TextLine(fields) == [kind |-> "text", fields |-> fields]

CommentLine == [kind |-> "comment", fields |-> <<>>]

BlankLine == [kind |-> "blank", fields |-> <<>>]

\* A well-formed input line "pid;bt;at;q;prio".
Lines ==
    {TextLine(<<Text(b), Text(a), Text(q), Text(pr)>>) :
        b \in Bursts, a \in Arrivals, q \in 1..3, pr \in Priorities}

Files == UNION {[1..n -> Lines] : n \in 0..MaxProcs}

\* Lines of every kind: comments, blank lines, a line of three parts, and lines
\* of five parts whose fields are not all integers or are out of range.
RawLines ==
    {CommentLine, BlankLine, TextLine(<<"1", "0">>)}
    \cup {TextLine(<<b, a, q, "2">>) :
            b \in {"x", "-1", "0", "1", "2"}, a \in {"0", "1"},
            q \in {"1", "2", "4"}}

RawFiles == UNION {[1..n -> RawLines] : n \in 0..MaxProcs}

\* Process.__init__ on the parsed fields of a line:
\* Process(pid, int(bt_str), int(at_str), int(q_num_str), int(prio_str))
Process(line) ==
    [burst_time |-> ParseInt(line.fields[1]),
     arrival_time |-> ParseInt(line.fields[2]),
     queue_num |-> ParseInt(line.fields[3]),
     priority |-> ParseInt(line.fields[4]),
     remaining_time |-> ParseInt(line.fields[1]),
     first_run_time |-> UNSET,
     completion_time |-> 0,
     turnaround_time |-> 0,
     waiting_time |-> 0,
     response_time |-> 0]

\* list.sort(key=...) is stable: x goes after every element whose key is <= its own.
RECURSIVE InsertByArrival(_, _, _)
InsertByArrival(P, s, x) ==
    IF s = <<>> THEN <<x>>
    ELSE IF P[Head(s)].arrival_time <= P[x].arrival_time
         THEN <<Head(s)>> \o InsertByArrival(P, Tail(s), x)
         ELSE <<x>> \o s

RECURSIVE SortByArrival(_, _)
SortByArrival(P, s) ==
    IF s = <<>> THEN <<>>
    ELSE InsertByArrival(P, SortByArrival(P, SubSeq(s, 1, Len(s) - 1)), s[Len(s)])

\* Q3KeyLeq with the priority not negated.
Q3KeyLeqAscending(P, a, b) ==
    \/ P[a].burst_time < P[b].burst_time
    \/ /\ P[a].burst_time = P[b].burst_time
       /\ P[a].priority <= P[b].priority

\* key=lambda p: (p.burst_time, -p.priority), compared as Python compares tuples
Q3KeyLeq(P, a, b) ==
    \/ P[a].burst_time < P[b].burst_time
    \/ /\ P[a].burst_time = P[b].burst_time
       /\ -P[a].priority <= -P[b].priority

RECURSIVE InsertQ3(_, _, _)
InsertQ3(P, s, x) ==
    IF s = <<>> THEN <<x>>
    ELSE IF Q3KeyLeq(P, Head(s), x)
         THEN <<Head(s)>> \o InsertQ3(P, Tail(s), x)
         ELSE <<x>> \o s

RECURSIVE SortQ3(_, _)
SortQ3(P, s) ==
    IF s = <<>> THEN <<>>
    ELSE InsertQ3(P, SortQ3(P, SubSeq(s, 1, Len(s) - 1)), s[Len(s)])

\* ---------------------------------------------------------------- Init
\* The output file before write_output has run.
NoReport == [written |-> FALSE, rows |-> <<>>, aggregate |-> <<>>]

\* MLQSimulator.__init__ with the input file and the quanta chosen.
Init ==
    /\ file \in Files
    /\ quantum1 \in Quanta
    /\ quantum2 \in Quanta
    /\ proc = <<>>
    /\ processes_to_arrive = <<>>
    /\ q1 = <<>>
    /\ q2 = <<>>
    /\ q3 = <<>>
    /\ completed_processes = <<>>
    /\ current_time = 0
    /\ current_process = None
    /\ pc = "load"
    /\ report = NoReport
    /\ hist = [idle_ticks |-> 0, slices |-> <<>>, snap |-> <<>>]

\* ------------------------------------------------------- load_processes
\* The line is neither skipped as a comment or a blank line nor dropped for
\* not having five parts.
FiveParts(line) == line.kind = "text" /\ Len(line.fields) + 1 = 5

\* One of the four int() calls of line 53 raises ValueError.
Raises(line) ==
    FiveParts(line) /\ \E k \in 1..4 : ~IsIntText(line.fields[k])

\* The first line on which the loop raises (0: none).
FirstRaising(f) ==
    IF \E i \in 1..Len(f) : Raises(f[i])
    THEN CHOOSE i \in 1..Len(f) :
            Raises(f[i]) /\ \A j \in 1..(i - 1) : ~Raises(f[j])
    ELSE 0

\* The lines the loop has appended a Process for, in file order, when it has
\* read the lines before line n.
RECURSIVE Appended(_, _)
Appended(f, n) ==
    IF n <= 1 THEN <<>>
    ELSE IF FiveParts(f[n - 1])
         THEN Append(Appended(f, n - 1), n - 1)
         ELSE Appended(f, n - 1)

\* LoadedFeed with the sort left out: the feed in file order.
LoadedFeedUnsorted(P, f) == Appended(f, Len(f) + 1)

\* The feed load_processes leaves when no line raises: P are the Process
\* objects, f the file.
LoadedFeed(P, f) == SortByArrival(P, Appended(f, Len(f) + 1))

load_processes ==
    /\ pc = "load"
    /\ LET bad == FirstRaising(file)
           got == Appended(file, IF bad = 0 THEN Len(file) + 1 ELSE bad)
       IN /\ proc' = [i \in Range(got) |-> Process(file[i])]
          /\ IF bad = 0
             THEN /\ processes_to_arrive' = LoadedFeed(proc', file)
                  /\ pc' = "loop"
             ELSE \* except Exception: return False; main does not go on
                  /\ processes_to_arrive' = got
                  /\ pc' = "failed"
          /\ hist' = [idle_ticks |-> 0,
                      slices |-> [i \in Range(got) |-> 0],
                      snap |-> [i \in Range(got) |->
                                  [ahead |-> {}, slices |-> <<>>]]]
    /\ UNCHANGED <<file, quantum1, quantum2, q1, q2, q3, completed_processes,
                   current_time, current_process, report>>

\* ------------------------------------------- check_for_arriving_processes
\* ArrivedCount with < for <=: a record is admitted one time unit late.
RECURSIVE ArrivedCountLate(_, _, _)
ArrivedCountLate(P, feed, t) ==
    IF feed # <<>> /\ P[Head(feed)].arrival_time < t
    THEN 1 + ArrivedCountLate(P, Tail(feed), t)
    ELSE 0

\* ArrivedCount admitting one time unit early.
RECURSIVE ArrivedCountEarly(_, _, _)
ArrivedCountEarly(P, feed, t) ==
    IF feed # <<>> /\ P[Head(feed)].arrival_time <= t + 1
    THEN 1 + ArrivedCountEarly(P, Tail(feed), t)
    ELSE 0

\* Number of records the while loop pops: it stops at the first head that has
\* not arrived, whatever follows it.
RECURSIVE ArrivedCount(_, _, _)
ArrivedCount(P, feed, t) ==
    IF feed # <<>> /\ P[Head(feed)].arrival_time <= t
    THEN 1 + ArrivedCount(P, Tail(feed), t)
    ELSE 0

Arrived(P, feed, t) == SubSeq(feed, 1, ArrivedCount(P, feed, t))

FeedAfter(P, feed, t) == SubSeq(feed, ArrivedCount(P, feed, t) + 1, Len(feed))

\* InQueue with the records of queue 3 appended to q2.
InQueueMerged(P, n, p) ==
    \/ n = 1 /\ P[p].queue_num = 1
    \/ n = 2 /\ P[p].queue_num \in {2, 3}

\* if process.queue_num == 1 / elif == 2 / elif == 3: the queue that takes p.
InQueue(P, n, p) == P[p].queue_num = n

\* The queue n after the arrived records were appended, in pop order.
Admit(P, q, n, feed, t) ==
    q \o SelectSeq(Arrived(P, feed, t), LAMBDA p : InQueue(P, n, p))

\* ---------------------------------------------------------- run_simulation
LoopCondition ==
    \/ processes_to_arrive # <<>>
    \/ q1 # <<>>
    \/ q2 # <<>>
    \/ q3 # <<>>
    \/ current_process # None

\* while-test true, then check_for_arriving_processes()
LoopAdmit ==
    /\ pc = "loop"
    /\ LoopCondition
    /\ q1' = Admit(proc, q1, 1, processes_to_arrive, current_time)
    /\ q2' = Admit(proc, q2, 2, processes_to_arrive, current_time)
    /\ q3' = Admit(proc, q3, 3, processes_to_arrive, current_time)
    /\ processes_to_arrive' = FeedAfter(proc, processes_to_arrive, current_time)
    /\ pc' = "select"
    /\ UNCHANGED <<file, quantum1, quantum2, proc, completed_processes,
                   current_time, current_process, report, hist>>

\* while-test false: run_simulation returns
LoopExit ==
    /\ pc = "loop"
    /\ ~LoopCondition
    /\ pc' = "done"
    /\ UNCHANGED <<file, quantum1, quantum2, proc, processes_to_arrive, q1, q2,
                   q3, completed_processes, current_time, current_process,
                   report, hist>>

\* ------------------------------------------------------ select_next_process
\* NextQueue with the tests on q1 and q2 in the wrong order.
NextQueueQ2First(a1, a2, a3) ==
    IF a2 # <<>> THEN 2
    ELSE IF a1 # <<>> THEN 1
    ELSE IF a3 # <<>> THEN 3
    ELSE 0

\* The queue select_next_process takes from (0: all three are empty).
NextQueue(a1, a2, a3) ==
    IF a1 # <<>> THEN 1
    ELSE IF a2 # <<>> THEN 2
    ELSE IF a3 # <<>> THEN 3
    ELSE 0

\* if not self.current_process: self.select_next_process()
Select ==
    /\ pc = "select"
    /\ IF current_process # None
       THEN UNCHANGED <<q1, q2, q3, current_process>>
       ELSE CASE NextQueue(q1, q2, q3) = 1 ->
                   /\ current_process' = Head(q1)
                   /\ q1' = Tail(q1)
                   /\ UNCHANGED <<q2, q3>>
              [] NextQueue(q1, q2, q3) = 2 ->
                   /\ current_process' = Head(q2)
                   /\ q2' = Tail(q2)
                   /\ UNCHANGED <<q1, q3>>
              [] NextQueue(q1, q2, q3) = 3 ->
                   /\ current_process' = Head(SortQ3(proc, q3))
                   /\ q3' = Tail(SortQ3(proc, q3))
                   /\ UNCHANGED <<q1, q2>>
              [] OTHER -> UNCHANGED <<q1, q2, q3, current_process>>
    /\ pc' = "run"
    /\ UNCHANGED <<file, quantum1, quantum2, proc, processes_to_arrive,
                   completed_processes, current_time, report, hist>>

\* ---------------------------------------------------------- execute_process
Min(a, b) == IF a <= b THEN a ELSE b

\* RunTime with queue 3 sliced by the quantum of queue 2.
RunTimeQ3Sliced(P, p) ==
    IF P[p].queue_num = 1 THEN Min(quantum1, P[p].remaining_time)
    ELSE Min(quantum2, P[p].remaining_time)

\* RunTime with the quantum taken one too small.
RunTimeShort(P, p) ==
    IF P[p].queue_num = 1 THEN Min(quantum1 - 1, P[p].remaining_time)
    ELSE IF P[p].queue_num = 2 THEN Min(quantum2 - 1, P[p].remaining_time)
    ELSE P[p].remaining_time

\* RunTime with the whole quantum charged, whatever is left of the burst.
RunTimeFullQuantum(P, p) ==
    IF P[p].queue_num = 1 THEN quantum1
    ELSE IF P[p].queue_num = 2 THEN quantum2
    ELSE P[p].remaining_time

\* run_time = min(quantum, process.remaining_time); the quantum of a process that
\* is in neither round-robin queue is float('inf'), so the minimum is the
\* remaining time.
RunTime(P, p) ==
    IF P[p].queue_num = 1 THEN Min(quantum1, P[p].remaining_time)
    ELSE IF P[p].queue_num = 2 THEN Min(quantum2, P[p].remaining_time)
    ELSE P[p].remaining_time

\* FirstRun with the test on -1 left out: every slice stamps the record.
FirstRunAlways(P, p, t) == t

\* if process.first_run_time == -1: process.first_run_time = self.current_time
FirstRun(P, p, t) ==
    IF P[p].first_run_time = UNSET THEN t ELSE P[p].first_run_time

\* The process record after the slice that starts at time t.
Sliced(P, p, t) ==
    [P[p] EXCEPT !.first_run_time = FirstRun(P, p, t),
                 !.remaining_time = P[p].remaining_time - RunTime(P, p)]

\* finalize_process with the waiting time taken from the completion time.
finalize_process_wt(r, t) ==
    [r EXCEPT !.completion_time = t,
              !.turnaround_time = t - r.arrival_time,
              !.waiting_time = t - r.burst_time,
              !.response_time = r.first_run_time - r.arrival_time]

\* finalize_process: the record r completed at time t.
finalize_process(r, t) ==
    [r EXCEPT !.completion_time = t,
              !.turnaround_time = t - r.arrival_time,
              !.waiting_time = (t - r.arrival_time) - r.burst_time,
              !.response_time = r.first_run_time - r.arrival_time]

\* Requeue as a feedback scheduler would do it: an unfinished queue-1 process
\* goes down to queue 2.
RequeueDemoted(q, n, r, p) ==
    IF n = 2 /\ r.queue_num \in {1, 2} THEN Append(q, p) ELSE q

\* Requeue with the append forgotten.
RequeueDropped(q, n, r, p) == q

\* Requeue with appendleft: the process goes back to the head of its queue.
RequeueFront(q, n, r, p) == IF r.queue_num = n THEN <<p>> \o q ELSE q

\* The unfinished process p goes back to the tail of queue n when n is its own
\* queue; both branches of the test on q1 do the same. Requeue is the else
\* branch (q1 empty after the admission), RequeuePreempted the if branch.
Requeue(q, n, r, p) == IF r.queue_num = n THEN Append(q, p) ELSE q

\* The unfinished process put back before the admission at the end of its
\* slice: ahead of the records that were still in the feed when the slice began.
RequeueBeforeAdmit(q, n, r, p) ==
    IF r.queue_num = n
    THEN SelectSeq(q, LAMBDA x : x \notin Range(processes_to_arrive))
         \o <<p>>
         \o SelectSeq(q, LAMBDA x : x \in Range(processes_to_arrive))
    ELSE q

\* RequeuePreempted putting the process back at the head of its queue, as a
\* preempted process that keeps its turn would be.
RequeuePreemptedFront(q, n, r, p) == IF r.queue_num = n THEN <<p>> \o q ELSE q

\* if self.q1: the unfinished process goes back to the tail of its own queue.
RequeuePreempted(q, n, r, p) == IF r.queue_num = n THEN Append(q, p) ELSE q

\* History of the slices a process has received. A slice takes at least one
\* time unit off a burst, so no process receives more slices than the longest
\* burst; the count stops one above that.
MaxSlices == 1 + CHOOSE b \in Bursts : \A c \in Bursts : c <= b

Counted(k) == IF k < MaxSlices THEN k + 1 ELSE k

execute_process ==
    /\ pc = "run"
    /\ current_process # None
    /\ LET p == current_process
           r == Sliced(proc, p, current_time)
           t == current_time + RunTime(proc, p)
           a1 == Admit(proc, q1, 1, processes_to_arrive, t)
           a2 == Admit(proc, q2, 2, processes_to_arrive, t)
           a3 == Admit(proc, q3, 3, processes_to_arrive, t)
       IN /\ current_time' = t
          /\ processes_to_arrive' = FeedAfter(proc, processes_to_arrive, t)
          /\ q3' = a3
          /\ IF r.remaining_time = 0
             THEN /\ proc' = [proc EXCEPT ![p] = finalize_process(r, t)]
                  /\ completed_processes' = Append(completed_processes, p)
                  /\ q1' = a1
                  /\ q2' = a2
                  /\ hist' = [hist EXCEPT !.slices[p] = Counted(@)]
             ELSE /\ proc' = [proc EXCEPT ![p] = r]
                  /\ completed_processes' = completed_processes
                  /\ IF a1 # <<>>
                     THEN /\ q1' = RequeuePreempted(a1, 1, r, p)
                          /\ q2' = RequeuePreempted(a2, 2, r, p)
                     ELSE /\ q1' = Requeue(a1, 1, r, p)
                          /\ q2' = Requeue(a2, 2, r, p)
                  /\ hist' = [hist EXCEPT
                        !.slices[p] = Counted(@),
                        !.snap[p] =
                            [ahead |-> IF r.queue_num = 1 THEN Range(a1)
                                       ELSE IF r.queue_num = 2 THEN Range(a2)
                                       ELSE {},
                             slices |-> [hist.slices EXCEPT ![p] = Counted(@)]]]
          /\ current_process' = None
    /\ pc' = "loop"
    /\ UNCHANGED <<file, quantum1, quantum2, report>>

\* IdleAdvance skipping a time unit.
IdleAdvanceTwo(t) == t + 2

\* else: self.current_time += 1
IdleAdvance(t) == t + 1

IdleTick ==
    /\ pc = "run"
    /\ current_process = None
    /\ current_time' = IdleAdvance(current_time)
    /\ pc' = "loop"
    /\ hist' = [hist EXCEPT !.idle_ticks = @ + 1]
    /\ UNCHANGED <<file, quantum1, quantum2, proc, processes_to_arrive, q1, q2,
                   q3, completed_processes, current_process, report>>

\* ---------------------------------------------------------- write_output
\* self.completed_processes.sort(key=lambda p: p.pid): a process is named by
\* the position of its line in the file, and the labels of the lines are taken
\* to sort in that order.
RECURSIVE SortByPid(_)
SortByPid(S) ==
    IF S = {} THEN <<>>
    ELSE LET m == CHOOSE x \in S : \A y \in S : x <= y
         IN  <<m>> \o SortByPid(S \ {m})

\* One line of the report: the nine fields of the record.
Row(P, p) ==
    <<p, P[p].burst_time, P[p].arrival_time, P[p].queue_num, P[p].priority,
      P[p].waiting_time, P[p].completion_time, P[p].response_time,
      P[p].turnaround_time>>

RECURSIVE Total(_, _, _)
Total(P, done, field) ==
    IF done = <<>> THEN 0
    ELSE P[Head(done)][field] + Total(P, Tail(done), field)

\* f"{total / n:.1f}", in tenths: the quotient rounded to the nearest tenth, a
\* tie (an exact binary fraction, n a power of two) going to the even digit.
Tenths(total, n) ==
    LET q == (10 * total) \div n
        r == (10 * total) % n
    IN  IF 2 * r < n THEN q
        ELSE IF 2 * r > n THEN q + 1
        ELSE IF q % 2 = 0 THEN q ELSE q + 1

AggregateUnguarded(P, done) ==
    LET n == IF Len(done) > 0 THEN Len(done) ELSE 1
    IN  <<Tenths(Total(P, done, "waiting_time"), n),
          Tenths(Total(P, done, "completion_time"), n),
          Tenths(Total(P, done, "response_time"), n),
          Tenths(Total(P, done, "turnaround_time"), n)>>

\* if num_processes > 0: the four averages; otherwise no aggregate line.
Aggregate(P, done) ==
    LET n == Len(done)
    IN  IF n > 0
        THEN <<Tenths(Total(P, done, "waiting_time"), n),
               Tenths(Total(P, done, "completion_time"), n),
               Tenths(Total(P, done, "response_time"), n),
               Tenths(Total(P, done, "turnaround_time"), n)>>
        ELSE <<>>

write_output ==
    /\ pc = "done"
    /\ LET sorted == SortByPid(Range(completed_processes))
       IN  /\ completed_processes' = sorted
           /\ report' = [written |-> TRUE,
                         rows |-> [k \in 1..Len(sorted) |-> Row(proc, sorted[k])],
                         aggregate |-> Aggregate(proc, sorted)]
    /\ pc' = "written"
    /\ UNCHANGED <<file, quantum1, quantum2, proc, processes_to_arrive, q1, q2,
                   q3, current_time, current_process, hist>>

\* ------------------------------------------------------------------ Spec
\* The simulator given a file of lines of every kind.
InitRaw ==
    /\ file \in RawFiles
    /\ quantum1 \in Quanta
    /\ quantum2 \in Quanta
    /\ proc = <<>>
    /\ processes_to_arrive = <<>>
    /\ q1 = <<>>
    /\ q2 = <<>>
    /\ q3 = <<>>
    /\ completed_processes = <<>>
    /\ current_time = 0
    /\ current_process = None
    /\ pc = "load"
    /\ report = NoReport
    /\ hist = [idle_ticks |-> 0, slices |-> <<>>, snap |-> <<>>]

Next ==
    \/ load_processes
    \/ LoopAdmit
    \/ LoopExit
    \/ Select
    \/ execute_process
    \/ IdleTick

Spec == Init /\ [][Next]_vars

LoaderSpec == InitRaw /\ [][Next]_vars

\* The simulator given one process more than MaxProcs, all of them in the
\* round-robin queues.
RotationLines ==
    {TextLine(<<Text(b), Text(a), Text(q), "2">>) :
        b \in Bursts, a \in Arrivals, q \in 1..2}

RotationFiles == [1..MaxProcs + 1 -> RotationLines]

InitRotation ==
    /\ file \in RotationFiles
    /\ quantum1 \in Quanta
    /\ quantum2 \in Quanta
    /\ proc = <<>>
    /\ processes_to_arrive = <<>>
    /\ q1 = <<>>
    /\ q2 = <<>>
    /\ q3 = <<>>
    /\ completed_processes = <<>>
    /\ current_time = 0
    /\ current_process = None
    /\ pc = "load"
    /\ report = NoReport
    /\ hist = [idle_ticks |-> 0, slices |-> <<>>, snap |-> <<>>]

RotationSpec == InitRotation /\ [][Next]_vars

\* main: load_processes, run_simulation, then write_output.
NextMain ==
    \/ Next
    \/ write_output

MainSpec == Init /\ [][NextMain]_vars

\* The simulator is a sequential program: while a statement is left to run, it
\* runs.
FairSpec == Spec /\ WF_vars(Next)

\* ================================================================ claims
Pids == DOMAIN proc

Occurrences(s, p) == Cardinality({i \in 1..Len(s) : s[i] = p})

Done == pc = "done"

\* C1: when run_simulation has ended, completed_processes holds every loaded
\* process exactly once, and the feed, the three queues and the running slot
\* are empty.
C1_AllCompletedOnce ==
    Done =>
        /\ Pids = 1..Len(file)
        /\ Len(completed_processes) = Len(file)
        /\ \A p \in Pids : Occurrences(completed_processes, p) = 1
        /\ processes_to_arrive = <<>>
        /\ q1 = <<>> /\ q2 = <<>> /\ q3 = <<>>
        /\ current_process = None

\* A finished run of two processes, one of which needed more than one slice.
C1_Witness ==
    /\ Done
    /\ Len(file) = 2
    /\ \E p \in Pids :
          /\ proc[p].queue_num = 1
          /\ proc[p].burst_time > quantum1
          /\ proc[p].remaining_time = 0

Queued(p) == p \in Range(q1) \cup Range(q2) \cup Range(q3)

Completed(p) == p \in Range(completed_processes)

DoneState ==
    /\ Done
    /\ processes_to_arrive = <<>>
    /\ q1 = <<>> /\ q2 = <<>> /\ q3 = <<>>
    /\ current_process = None

\* C2: every run reaches the Done state (feed, queues and running slot empty)
\* and takes no step from it; every process admitted to a queue is eventually
\* finalized.
C2_Terminates ==
    /\ <>[]DoneState
    /\ [][~Done]_vars
    /\ \A p \in 1..MaxProcs : [](Queued(p) => <>Completed(p))

\* A finished run in which a queue-2 or queue-3 process had arrived and had to
\* wait until a queue-1 process completed.
C2_Witness ==
    /\ DoneState
    /\ \E p, o \in Pids :
          /\ proc[p].queue_num \in {2, 3}
          /\ proc[o].queue_num = 1
          /\ proc[p].arrival_time < proc[o].completion_time
          /\ proc[o].completion_time <= proc[p].first_run_time

\* A slice is about to begin: select_next_process has filled the running slot
\* and execute_process has not run yet.
Dispatched == pc = "run" /\ current_process # None

Unfinished(n, t) ==
    {o \in Pids : /\ proc[o].queue_num = n
                  /\ proc[o].arrival_time <= t
                  /\ proc[o].remaining_time > 0}

\* C3: when a slice begins at time t for a queue-2 process, no queue-1 process
\* that has arrived by t is unfinished; when it begins for a queue-3 process, no
\* queue-1 or queue-2 process that has arrived by t is unfinished.
C3_HierarchyDominance ==
    Dispatched =>
        /\ proc[current_process].queue_num = 2 =>
              Unfinished(1, current_time) = {}
        /\ proc[current_process].queue_num = 3 =>
              Unfinished(1, current_time) \cup Unfinished(2, current_time) = {}

\* A queue-2 process that arrived no later than a queue-1 process of several
\* slices is dispatched for the first time, after that process has completed.
C3_Witness ==
    /\ Dispatched
    /\ proc[current_process].queue_num = 2
    /\ proc[current_process].first_run_time = UNSET
    /\ \E o \in Pids :
          /\ proc[o].queue_num = 1
          /\ proc[o].burst_time > quantum1
          /\ proc[current_process].arrival_time <= proc[o].arrival_time
          /\ proc[o].remaining_time = 0

\* C4: a queue-3 process runs its whole burst in the one slice it is given: at
\* its dispatch nothing of it has run, and once its first slice has started it
\* is completed, with completion_time = first_run_time + burst_time.
C4_Queue3NonPreemptive ==
    \A p \in Pids :
        proc[p].queue_num = 3 =>
            /\ (Dispatched /\ current_process = p) =>
                  /\ proc[p].first_run_time = UNSET
                  /\ proc[p].remaining_time = proc[p].burst_time
            /\ proc[p].first_run_time # UNSET =>
                  /\ proc[p].remaining_time = 0
                  /\ Occurrences(completed_processes, p) = 1
                  /\ proc[p].completion_time =
                        proc[p].first_run_time + proc[p].burst_time

\* A queue-3 process has completed, and a queue-1 process arrived strictly
\* inside its slice.
C4_Witness ==
    \E p, o \in Pids :
        /\ proc[p].queue_num = 3
        /\ Completed(p)
        /\ proc[o].queue_num = 1
        /\ proc[p].first_run_time < proc[o].arrival_time
        /\ proc[o].arrival_time < proc[p].completion_time

\* C5: when a queue-3 process is dispatched, no process left in q3 has a
\* smaller burst_time, and none has the same burst_time and a higher priority.
C5_ShortestJobFirst ==
    (Dispatched /\ proc[current_process].queue_num = 3) =>
        \A o \in Range(q3) :
            /\ ~(proc[o].burst_time < proc[current_process].burst_time)
            /\ ~(/\ proc[o].burst_time = proc[current_process].burst_time
                 /\ proc[o].priority > proc[current_process].priority)

\* Of two queue-3 processes of equal burst that arrived together, the one of
\* priority 5 is dispatched although the one of priority 2 is earlier in the file.
C5_Witness ==
    /\ Dispatched
    /\ proc[current_process].queue_num = 3
    /\ proc[current_process].priority = 5
    /\ \E o \in Range(q3) :
          /\ o < current_process
          /\ proc[o].arrival_time = proc[current_process].arrival_time
          /\ proc[o].burst_time = proc[current_process].burst_time
          /\ proc[o].priority = 2

\* C6: the stored metrics of every completed process are turnaround =
\* completion - arrival, waiting = turnaround - burst, response = first run -
\* arrival, all three >= 0; first_run_time is set at finalization and no
\* process is first dispatched before it arrives.
C6_Metrics ==
    /\ \A p \in Pids :
          Completed(p) =>
              /\ proc[p].first_run_time # UNSET
              /\ proc[p].turnaround_time =
                    proc[p].completion_time - proc[p].arrival_time
              /\ proc[p].waiting_time =
                    proc[p].turnaround_time - proc[p].burst_time
              /\ proc[p].response_time =
                    proc[p].first_run_time - proc[p].arrival_time
              /\ proc[p].turnaround_time >= 0
              /\ proc[p].waiting_time >= 0
              /\ proc[p].response_time >= 0
    /\ \A p \in Pids :
          proc[p].first_run_time # UNSET =>
              proc[p].first_run_time >= proc[p].arrival_time

\* A completed process that arrived after time 0, waited for its first slice
\* and again between its slices.
C6_Witness ==
    \E p \in Pids :
        /\ Completed(p)
        /\ proc[p].arrival_time > 0
        /\ proc[p].response_time > 0
        /\ proc[p].waiting_time > proc[p].response_time

\* C7: no completed process finished earlier than its arrival plus its burst.
C7_CompletionLowerBound ==
    \A p \in Pids :
        Completed(p) =>
            proc[p].completion_time >= proc[p].arrival_time + proc[p].burst_time

\* Two completed processes: one that arrived after time 0 and finished exactly
\* at arrival + burst, one that finished later than that.
C7_Witness ==
    \E p, o \in Pids :
        /\ Completed(p)
        /\ Completed(o)
        /\ proc[p].arrival_time > 0
        /\ proc[p].completion_time = proc[p].arrival_time + proc[p].burst_time
        /\ proc[o].completion_time > proc[o].arrival_time + proc[o].burst_time

\* The running slot and the three queues are empty.
Idle ==
    /\ current_process = None
    /\ q1 = <<>> /\ q2 = <<>> /\ q3 = <<>>

\* The processes a step moved out of the feed.
Moved == Range(processes_to_arrive) \ Range(processes_to_arrive')

\* C8: a loop iteration that starts with the slot and the queues empty admits
\* exactly the pending records whose arrival_time is the current clock value
\* (none is pending from before, none that arrives later is taken); if none
\* arrives now the iteration leaves the slot empty, the queues and the feed as
\* they are, and advances the clock by exactly 1.
C8_IdleGap ==
    [][/\ (pc = "loop" /\ Idle /\ processes_to_arrive # <<>>) =>
            /\ \A p \in Range(processes_to_arrive) :
                  proc[p].arrival_time >= current_time
            /\ Moved = {p \in Range(processes_to_arrive) :
                           proc[p].arrival_time = current_time}
            /\ Moved = Range(q1') \cup Range(q2') \cup Range(q3')
            /\ current_time' = current_time
            /\ current_process' = None
       /\ (pc = "select" /\ Idle) =>
            /\ current_process' = None
            /\ current_time' = current_time
            /\ UNCHANGED <<processes_to_arrive, q1, q2, q3>>
       /\ (pc = "run" /\ Idle) =>
            /\ current_time' = current_time + 1
            /\ current_process' = None
            /\ UNCHANGED <<processes_to_arrive, q1, q2, q3, proc,
                           completed_processes>>
            /\ processes_to_arrive # <<>>
            /\ \A p \in Range(processes_to_arrive) :
                  proc[p].arrival_time > current_time
      ]_vars

\* The first arrival is at time 2: after two idle ticks from time 0 it has just
\* been admitted, at clock value 2, and nothing has run.
C8_Witness ==
    /\ pc = "select"
    /\ current_time = 2
    /\ completed_processes = <<>>
    /\ ~Idle
    /\ \A p \in Pids :
          /\ proc[p].arrival_time >= 2
          /\ proc[p].first_run_time = UNSET
    /\ \E p \in Pids : proc[p].arrival_time = 2 /\ Queued(p)

\* The feed is ascending by arrival_time, ties in file order.
FeedSorted ==
    \A i, j \in 1..Len(processes_to_arrive) :
        i < j =>
            LET a == processes_to_arrive[i]
                b == processes_to_arrive[j]
            IN \/ proc[a].arrival_time < proc[b].arrival_time
               \/ proc[a].arrival_time = proc[b].arrival_time /\ a < b

\* The records of the feed that a check_for_arriving_processes at time t must
\* move (in feed order), and those it must leave.
Due(t) ==
    SelectSeq(processes_to_arrive, LAMBDA p : proc[p].arrival_time <= t)

NotDue(t) ==
    SelectSeq(processes_to_arrive, LAMBDA p : proc[p].arrival_time > t)

OfQueue(s, n) == SelectSeq(s, LAMBDA p : proc[p].queue_num = n)

\* q without the process x that execute_process put back at its tail, if it did.
WithoutRequeued(q, x) ==
    IF q # <<>> /\ q[Len(q)] = x THEN SubSeq(q, 1, Len(q) - 1) ELSE q

\* After a check_for_arriving_processes at time t, with x the process that was
\* in the running slot (None in the loop header).
AdmissionPost(t, x) ==
    /\ processes_to_arrive' = NotDue(t)
    /\ WithoutRequeued(q1', x) = q1 \o OfQueue(Due(t), 1)
    /\ WithoutRequeued(q2', x) = q2 \o OfQueue(Due(t), 2)
    /\ WithoutRequeued(q3', x) = q3 \o OfQueue(Due(t), 3)

\* C10: load_processes leaves the feed holding every record once, ascending by
\* arrival_time with ties in file order; each check_for_arriving_processes at
\* clock value t (in the loop header, and at the end of a slice) leaves in the
\* feed exactly the records with arrival_time > t, in their order, and appends
\* the others to the tail of the queue of their queue_num, in feed order; no
\* other step changes the feed.
C10_Admission ==
    [][/\ pc = "load" =>
            /\ Len(processes_to_arrive') = Len(file)
            /\ Range(processes_to_arrive') = 1..Len(file)
       /\ FeedSorted'
       /\ pc = "loop" => AdmissionPost(current_time, None)
       /\ pc = "run" /\ current_process # None =>
            AdmissionPost(current_time', current_process)
       /\ (pc \in {"select", "done"} \/ (pc = "run" /\ current_process = None)) =>
            UNCHANGED processes_to_arrive
      ]_vars

\* The file holds the later arrival first: the record of line 2 has been
\* admitted and the record of line 1 is still in the feed.
C10_Witness ==
    /\ pc = "select"
    /\ processes_to_arrive = <<1>>
    /\ Queued(2)
    /\ proc[2].arrival_time <= current_time
    /\ current_time < proc[1].arrival_time

\* The quantum of round-robin queue n.
QuantumOf(n) == IF n = 1 THEN quantum1 ELSE quantum2

QueueOf(n) == IF n = 1 THEN q1 ELSE IF n = 2 THEN q2 ELSE q3

\* C11: every slice of a queue-1 (queue-2) process lasts exactly
\* min(quantum1 (quantum2), remaining_time), which it takes off remaining_time;
\* the slice leaves the running slot empty, and a process it leaves unfinished
\* is then the last element of its own queue and in no other queue.
C11_RoundRobinSlice ==
    [][(Dispatched /\ proc[current_process].queue_num \in {1, 2}) =>
          LET p == current_process
              n == proc[p].queue_num
              len == IF QuantumOf(n) <= proc[p].remaining_time
                     THEN QuantumOf(n) ELSE proc[p].remaining_time
          IN /\ current_time' = current_time + len
             /\ len >= 1 /\ len <= QuantumOf(n)
             /\ proc'[p].remaining_time = proc[p].remaining_time - len
             /\ current_process' = None
             /\ proc'[p].remaining_time > 0 =>
                   LET own == IF n = 1 THEN q1' ELSE q2'
                   IN /\ own # <<>>
                      /\ own[Len(own)] = p
                      /\ Occurrences(q1' \o q2' \o q3', p) = 1
      ]_vars

\* A queue-1 process and a queue-2 process have each been put back, unfinished,
\* at the tail of their own queue.
C11_Witness ==
    /\ pc = "loop"
    /\ \E p \in Range(q1) :
          /\ proc[p].queue_num = 1
          /\ 0 < proc[p].remaining_time
          /\ proc[p].remaining_time < proc[p].burst_time
    /\ \E p \in Range(q2) :
          /\ proc[p].queue_num = 2
          /\ 0 < proc[p].remaining_time
          /\ proc[p].remaining_time < proc[p].burst_time

\* A line that is a well-formed record: five parts, integer fields, a positive
\* burst, a non-negative arrival and a queue in {1, 2, 3}.
WellFormed(line) ==
    /\ FiveParts(line)
    /\ \A k \in 1..4 : IsIntText(line.fields[k])
    /\ ParseInt(line.fields[1]) >= 1
    /\ ParseInt(line.fields[2]) >= 0
    /\ ParseInt(line.fields[3]) \in 1..3

WellFormedLines(f) == {i \in 1..Len(f) : WellFormed(f[i])}

\* C12: load_processes succeeds on every file and leaves in the feed exactly
\* the well-formed records of the file, each once, and the run completes
\* exactly these.
C12_LoaderFilters ==
    [][/\ pc = "load" =>
            /\ pc' = "loop"
            /\ Range(processes_to_arrive') = WellFormedLines(file)
            /\ Len(processes_to_arrive') = Cardinality(WellFormedLines(file))
       /\ Done' => Range(completed_processes') = WellFormedLines(file)
      ]_vars

\* C13: when the loader leaves an empty feed, run_simulation takes no step of
\* the loop body: the clock stays 0, completed_processes, the queues and the
\* running slot stay empty; and the report written afterwards has no row and
\* no aggregate line.
C13_EmptyInput ==
    (pc # "load" /\ Pids = {}) =>
        /\ pc \in {"loop", "done", "written"}
        /\ current_time = 0
        /\ completed_processes = <<>>
        /\ current_process = None
        /\ q1 = <<>> /\ q2 = <<>> /\ q3 = <<>>
        /\ hist.idle_ticks = 0
        /\ report.rows = <<>>
        /\ report.aggregate = <<>>

C13_Witness == pc = "written" /\ Pids = {} /\ report.written

\* C14: every process always has 0 <= remaining_time <= burst_time; no step
\* increases a remaining_time, and no step changes a burst_time, arrival_time,
\* queue_num or priority.
C14_RemainingBounds ==
    [][/\ \A p \in DOMAIN proc' :
              /\ 0 <= proc'[p].remaining_time
              /\ proc'[p].remaining_time <= proc'[p].burst_time
       /\ \A p \in Pids :
              /\ p \in DOMAIN proc'
              /\ proc'[p].remaining_time <= proc[p].remaining_time
              /\ proc'[p].burst_time = proc[p].burst_time
              /\ proc'[p].arrival_time = proc[p].arrival_time
              /\ proc'[p].queue_num = proc[p].queue_num
              /\ proc'[p].priority = proc[p].priority
      ]_vars

\* A process part of whose burst has run and part has not.
C14_Witness ==
    \E p \in Pids :
        /\ 0 < proc[p].remaining_time
        /\ proc[p].remaining_time < proc[p].burst_time

\* C15: first_run_time is -1 until the first slice of the process, is set by
\* that slice to the clock value at which the slice starts, and never changes
\* afterwards; completion_time is 0 until the slice that brings remaining_time
\* to 0, is set by that slice to the clock value at its end, and never changes
\* afterwards; a process in completed_processes stays there, once, and is never
\* queued or dispatched again.
C15_WrittenOnce ==
    [][\A p \in Pids :
          LET slice == Dispatched /\ current_process = p
              old == proc[p]
              new == proc'[p]
          IN  /\ (~slice) => /\ new.first_run_time = old.first_run_time
                             /\ new.completion_time = old.completion_time
              /\ (slice /\ old.first_run_time = UNSET) =>
                     new.first_run_time = current_time
              /\ (slice /\ old.first_run_time # UNSET) =>
                     new.first_run_time = old.first_run_time
              /\ (old.first_run_time = UNSET) =>
                     (old.remaining_time = old.burst_time /\ ~Completed(p))
              /\ (slice /\ new.remaining_time = 0) =>
                     /\ old.completion_time = 0
                     /\ new.completion_time = current_time'
                     /\ Completed(p)'
              /\ (slice /\ new.remaining_time # 0) =>
                     /\ new.completion_time = 0
                     /\ ~Completed(p)'
              /\ (~Completed(p)) => old.completion_time = 0
              /\ Completed(p) =>
                     /\ ~slice
                     /\ old.remaining_time = 0
                     /\ Completed(p)'
                     /\ Occurrences(completed_processes', p) = 1
                     /\ ~Queued(p)' /\ current_process' # p
      ]_vars

\* A process completed by its second or later slice, some time after its
\* first_run_time was written.
C15_Witness ==
    \E p \in Pids :
        /\ Completed(p)
        /\ proc[p].first_run_time # UNSET
        /\ proc[p].completion_time > proc[p].first_run_time + 1
        /\ hist.slices[p] >= 2

\* C16: the slice of a round-robin process that ends unfinished at time t
\* leaves no record with arrival_time <= t in the feed and leaves the queue of
\* the process as it was, then the records admitted into it during the slice,
\* then the process; after the slice of a queue-2 process every unfinished
\* queue-1 process that has arrived by t is in q1, the loop header removes
\* nothing from q1, and a selection with q1 non-empty dispatches the head of
\* q1, so that process runs before any queue-2 process does.
C16_StepOrder ==
    [][/\ (Dispatched /\ proc[current_process].queue_num \in {1, 2}) =>
            LET p == current_process
                n == proc[p].queue_num
                t == current_time'
                own == IF n = 1 THEN q1 ELSE q2
                ownAfter == IF n = 1 THEN q1' ELSE q2'
            IN  /\ \A o \in Range(processes_to_arrive') :
                       proc[o].arrival_time > t
                /\ proc'[p].remaining_time > 0 =>
                       ownAfter = own \o OfQueue(Due(t), n) \o <<p>>
                /\ n = 2 =>
                       \A o \in Pids :
                           (/\ proc[o].queue_num = 1
                            /\ proc[o].arrival_time <= t
                            /\ proc[o].remaining_time > 0) => o \in Range(q1')
       /\ pc = "loop" => Range(q1) \subseteq Range(q1')
       /\ (pc = "select" /\ q1 # <<>>) =>
            /\ current_process' = Head(q1)
            /\ proc[Head(q1)].queue_num = 1
            /\ pc' = "run"
      ]_vars

\* A queue ends with a process that has not run yet and arrived after the first
\* slice of the process behind it began, followed by that process, unfinished.
C16_Witness ==
    /\ pc = "loop"
    /\ \E q \in {q1, q2} :
          /\ Len(q) >= 2
          /\ LET p == q[Len(q)]
                 o == q[Len(q) - 1]
             IN  /\ proc[p].first_run_time # UNSET
                 /\ proc[p].remaining_time > 0
                 /\ proc[o].first_run_time = UNSET
                 /\ proc[o].arrival_time > proc[p].first_run_time

\* execute_process without the test on q1: after the slice and the admission an
\* unfinished process is appended to the queue of its queue_num and the running
\* slot is cleared.
execute_process_unconditional ==
    /\ pc = "run"
    /\ current_process # None
    /\ LET p == current_process
           r == Sliced(proc, p, current_time)
           t == current_time + RunTime(proc, p)
           a1 == Admit(proc, q1, 1, processes_to_arrive, t)
           a2 == Admit(proc, q2, 2, processes_to_arrive, t)
           a3 == Admit(proc, q3, 3, processes_to_arrive, t)
       IN /\ current_time' = t
          /\ processes_to_arrive' = FeedAfter(proc, processes_to_arrive, t)
          /\ q3' = a3
          /\ IF r.remaining_time = 0
             THEN /\ proc' = [proc EXCEPT ![p] = finalize_process(r, t)]
                  /\ completed_processes' = Append(completed_processes, p)
                  /\ q1' = a1
                  /\ q2' = a2
             ELSE /\ proc' = [proc EXCEPT ![p] = r]
                  /\ completed_processes' = completed_processes
                  /\ q1' = (IF r.queue_num = 1 THEN Append(a1, p) ELSE a1)
                  /\ q2' = (IF r.queue_num = 2 THEN Append(a2, p) ELSE a2)
          /\ current_process' = None
    /\ pc' = "loop"
    /\ UNCHANGED <<file, quantum1, quantum2, report>>

\* C17: every step that execute_process takes is the step that the variant
\* without the test on q1 takes from the same state: the two leave the same
\* clock, records, feed, queues, completed list and running slot after every
\* slice.
C17_BranchRedundant == [][Dispatched => execute_process_unconditional]_vars

\* A queue-2 process has just been put back while q1 was not empty: q1 holds
\* only processes that arrived during its slice.
C17_Witness ==
    /\ pc = "loop"
    /\ q1 # <<>>
    /\ q2 # <<>>
    /\ LET p == q2[Len(q2)]
       IN  /\ proc[p].first_run_time # UNSET
           /\ proc[p].remaining_time > 0
           /\ \A o \in Range(q1) :
                  /\ proc[o].first_run_time = UNSET
                  /\ proc[o].arrival_time > proc[p].first_run_time

\* C18: whenever the while condition of run_simulation is evaluated, and when
\* the loop has ended, every loaded process is held exactly once by the feed,
\* q1, q2, q3 and completed_processes together, which hold nothing else; the
\* running slot is empty; queue i holds only processes with queue_num i; every
\* queued process has remaining_time > 0 and every completed one 0.
C18_Partition ==
    pc \in {"loop", "done"} =>
        /\ current_process = None
        /\ \A p \in Pids :
              Occurrences(processes_to_arrive, p) + Occurrences(q1, p)
                + Occurrences(q2, p) + Occurrences(q3, p)
                + Occurrences(completed_processes, p) = 1
        /\ Range(processes_to_arrive) \cup Range(q1) \cup Range(q2)
             \cup Range(q3) \cup Range(completed_processes) \subseteq Pids
        /\ \A p \in Range(q1) : proc[p].queue_num = 1
        /\ \A p \in Range(q2) : proc[p].queue_num = 2
        /\ \A p \in Range(q3) : proc[p].queue_num = 3
        /\ \A p \in Pids : Queued(p) => proc[p].remaining_time > 0
        /\ \A p \in Pids : Completed(p) => proc[p].remaining_time = 0

\* At a loop boundary one process is completed, one waits in q3 and nothing is
\* left in the feed.
C18_Witness ==
    /\ pc = "loop"
    /\ completed_processes # <<>>
    /\ q3 # <<>>
    /\ processes_to_arrive = <<>>

RECURSIVE TotalBurst(_)
TotalBurst(S) ==
    IF S = {} THEN 0
    ELSE LET p == CHOOSE x \in S : TRUE
         IN  proc[p].burst_time + TotalBurst(S \ {p})

\* C19: no step decreases the clock; the step that advances the clock without
\* running a process (the idle tick) is taken only when every process that has
\* arrived by the current time has remaining_time 0, and advances it by 1; when
\* the loop has ended the clock equals the sum of the burst times of all
\* processes plus the number of idle ticks taken.
C19_WorkConservation ==
    [][/\ current_time' >= current_time
       /\ (pc = "run" /\ current_process = None) =>
            /\ \A p \in Pids :
                  proc[p].arrival_time <= current_time =>
                      proc[p].remaining_time = 0
            /\ current_time' = current_time + 1
            /\ hist'.idle_ticks = hist.idle_ticks + 1
       /\ ~(pc = "run" /\ current_process = None) =>
            hist'.idle_ticks = hist.idle_ticks
       /\ Done' => current_time' = TotalBurst(Pids) + hist'.idle_ticks
      ]_vars

\* A run of two processes that ended after at least two idle ticks.
C19_Witness ==
    /\ Done
    /\ hist.idle_ticks >= 2
    /\ Cardinality(Pids) >= 2
    /\ current_time = TotalBurst(Pids) + hist.idle_ticks

\* P was put back into its queue after a slice that left it unfinished and has
\* not run since.
Waiting(P) ==
    /\ hist.snap[P].slices # <<>>
    /\ hist.slices[P] = hist.snap[P].slices[P]

\* Slices that o has received since P was last put back.
SlicesSince(P, o) == hist.slices[o] - hist.snap[P].slices[o]

\* C20: from the moment a round-robin process P is put back at the tail of its
\* queue until its next slice, a process that was in that queue when P was put
\* back receives at most one slice, and has received exactly one when P is
\* dispatched again; a process of the same queue that was not in it then
\* (enqueued after P) receives none.
C20_Rotation ==
    \A P \in Pids :
        Waiting(P) =>
            \A o \in Pids \ {P} :
                proc[o].queue_num = proc[P].queue_num =>
                    IF o \in hist.snap[P].ahead
                    THEN /\ SlicesSince(P, o) \in {0, 1}
                         /\ (Dispatched /\ current_process = P) =>
                                SlicesSince(P, o) = 1
                    ELSE SlicesSince(P, o) = 0

\* P gets its next slice after one process that was ahead of it has had its
\* slice, while a process enqueued after P still waits in the same queue.
C20_Witness ==
    /\ Dispatched
    /\ LET P == current_process
       IN  /\ Waiting(P)
           /\ \E o \in hist.snap[P].ahead : SlicesSince(P, o) = 1
           /\ \E o \in Pids \ (hist.snap[P].ahead \cup {P}) :
                  /\ proc[o].queue_num = proc[P].queue_num
                  /\ o \in Range(QueueOf(proc[P].queue_num))

====
